---- MODULE Spec2Model ----
(***************************************************************************)
(* Model of scripts/detect_amen.py: the chroma template matcher            *)
(* (match_template_chroma), the detection request (find_amen) and the      *)
(* command-line entry point (main).                                        *)
(*                                                                         *)
(* Numbers.  Every quantity the program holds as a float is held here      *)
(* exactly, as an integer numerator over a denominator that is known to be *)
(* positive:                                                               *)
(*   - times are counted in samples (1/SampleRate seconds), so that        *)
(*     k * hop / sr is the integer k * hop;                                *)
(*   - an entry of a normalized matrix, (x - mean) / (std + 1e-10), is     *)
(*     (size*x - sum) / (sqrt(rad) + 1e-10*size) with                      *)
(*     rad = size*sumsq - sum^2; the model keeps the numerator             *)
(*     size*x - sum and the radicand rad;                                  *)
(*   - a correlation value is num / (div * dT * dS), where dT and dS are   *)
(*     the two positive normalization denominators.                        *)
(***************************************************************************)
EXTENDS Integers, Sequences, FiniteSets, TLC

\* ---------------------------------------------------------------- constants
Bins == 12
HopLength == 512
SampleRate == 22050
DefaultStartMinutes == 20
DefaultDurationMinutes == 90

\* ------------------------------------------------------------------- bounds
\* Frame counts of the matrices given to the matcher on its own.
MaxM == 3
MaxN == 4
\* Frame counts of the stored template and of the search window's chroma
\* matrix inside a detection request.
MaxTemplateFrames == 2
MaxSearchFrames == 2
\* Minute arguments range over -1..MaxMinutes; media lasts up to
\* MaxMediaSteps * MediaStep seconds, or LongMedia seconds.
MaxMinutes == 1
MaxMediaSteps == 2

\* ------------------------------------------------------- chroma matrices
\* A chroma matrix is a sequence of columns (analysis frames); a column is a
\* sequence of Bins non-negative pitch-class energies.
Silent == [i \in 1..Bins |-> 0]
ChordC == [i \in 1..Bins |-> IF i \in {1, 5, 8} THEN 1 ELSE 0]
LoudC == [i \in 1..Bins |-> IF i \in {1, 5, 8} THEN 2 ELSE 0]
Columns == {Silent, ChordC, LoudC}

RECURSIVE MatricesOfLen(_, _)
MatricesOfLen(cols, n) ==
    IF n = 0 THEN {<<>>}
    ELSE {Append(X, c) : X \in MatricesOfLen(cols, n - 1), c \in cols}

Matrices(cols, lo, hi) == UNION {MatricesOfLen(cols, n) : n \in lo..hi}

RECURSIVE SumSeq(_)
SumSeq(s) == IF s = <<>> THEN 0 ELSE Head(s) + SumSeq(Tail(s))

Shape1(X) == Len(X)
Size(X) == Bins * Len(X)
MatSum(X) == SumSeq([j \in 1..Len(X) |-> SumSeq(X[j])])
MatSumSq(X) == SumSeq([j \in 1..Len(X) |-> SumSeq([i \in 1..Bins |-> X[j][i] * X[j][i]])])

\* (X - X.mean()) / (X.std() + 1e-10), kept as numerators over the common
\* positive denominator sqrt(rad) + 1e-10*size.
Normalize(X) ==
    LET size == Size(X)
        sum == MatSum(X)
    IN  [num |-> [j \in 1..Len(X) |-> [i \in 1..Bins |-> size * X[j][i] - sum]],
         rad |-> size * MatSumSq(X) - sum * sum]

\* Row i of a matrix of numerators.
Row(Xn, i) == [j \in 1..Len(Xn) |-> Xn[j][i]]

\* signal.correlate(in1, in2, mode='valid'): the dot product of in2 with every
\* window of in1 that it overlaps fully.  scipy swaps the inputs when in2 is
\* the longer one, so the output always has |len(in1) - len(in2)| + 1 entries.
CorrelateValidFlipped(in1, in2) ==
    \* a convolution: in2 is applied reversed
    LET a == IF Len(in2) > Len(in1) THEN in2 ELSE in1
        b == IF Len(in2) > Len(in1) THEN in1 ELSE in2
    IN  [k \in 1..(Len(a) - Len(b) + 1) |->
            SumSeq([j \in 1..Len(b) |-> a[k + j - 1] * b[Len(b) + 1 - j]])]

CorrelateValid(in1, in2) ==
    LET a == IF Len(in2) > Len(in1) THEN in2 ELSE in1
        b == IF Len(in2) > Len(in1) THEN in1 ELSE in2
    IN  [k \in 1..(Len(a) - Len(b) + 1) |->
            SumSeq([j \in 1..Len(b) |-> a[k + j - 1] * b[j]])]

\* np.argmax: the 0-based index of the first occurrence of the maximum.
RECURSIVE ArgMaxScanLast(_, _, _)
ArgMaxScanLast(s, i, best) ==
    IF i > Len(s) THEN best - 1
    ELSE ArgMaxScanLast(s, i + 1, IF s[i] >= s[best] THEN i ELSE best)

RECURSIVE ArgMaxScan(_, _, _)
ArgMaxScan(s, i, best) ==
    IF i > Len(s) THEN best - 1
    ELSE ArgMaxScan(s, i + 1, IF s[i] > s[best] THEN i ELSE best)

ArgMaxLast(s) == ArgMaxScanLast(s, 2, 1)

ArgMax(s) == ArgMaxScan(s, 2, 1)

\* The loop "for i in range(12): corr = correlate(...); correlations += corr".
\* The in-place += raises ValueError when corr cannot be broadcast to the
\* shape of correlations.  rows counts the row correlations computed.
RECURSIVE CorrelateRows(_, _, _, _)
CorrelateRows(i, acc, tn, sn) ==
    IF i > Bins THEN [kind |-> "ok", acc |-> acc, rows |-> Bins]
    ELSE LET corr == CorrelateValid(Row(sn, i), Row(tn, i))
         IN  IF Len(corr) # Len(acc) /\ Len(corr) # 1
             THEN [kind |-> "raise", exc |-> "ValueError", rows |-> i]
             ELSE CorrelateRows(i + 1,
                                [k \in 1..Len(acc) |->
                                    acc[k] + corr[IF Len(corr) = 1 THEN 1 ELSE k]],
                                tn, sn)

\* match_template_chroma(template_chroma, search_chroma)
MatchTemplateChroma(template_chroma, search_chroma) ==
    LET template_norm == Normalize(template_chroma)
        search_norm == Normalize(search_chroma)
        n == Shape1(search_chroma) - Shape1(template_chroma) + 1
    IN  IF n < 0
        THEN \* np.zeros of a negative dimension
             [kind |-> "raise", exc |-> "ValueError", rows |-> 0]
        ELSE LET loop == CorrelateRows(1, [k \in 1..n |-> 0],
                                       template_norm.num, search_norm.num)
             IN  IF loop.kind = "raise" THEN loop
                 ELSE IF n = 0
                 THEN \* np.argmax of an empty sequence
                      [kind |-> "raise", exc |-> "ValueError", rows |-> loop.rows]
                 ELSE LET div == Shape1(template_chroma)
                          best_idx == ArgMax(loop.acc)
                      IN  [kind |-> "ok",
                           rows |-> loop.rows,
                           correlations |-> loop.acc,
                           best_idx |-> best_idx,
                           best_score |-> [num |-> loop.acc[best_idx + 1],
                                           div |-> div * Bins,
                                           radT |-> template_norm.rad,
                                           radS |-> search_norm.rad]]


\* ------------------------------------------------------- scores and times
\* floor(sqrt(x)) for 0 <= x < 2^31, found bit by bit from 2^15 down.
RECURSIVE ISqrtBits(_, _)
ISqrtBits(x, b) ==
    IF b = 0 THEN 0
    ELSE LET hi == ISqrtBits(x, b - 1)
             r == hi + 2 ^ (16 - b)
         IN  IF r <= 46340 /\ r * r <= x THEN r ELSE hi

ISqrt(x) == ISqrtBits(x, 16)

\* A threshold is the rational p/q, q > 0, p >= 0.
DefaultMinConfidence == [p |-> 1, q |-> 2]
ZeroConfidence == [p |-> 0, q |-> 1]

\* best_score < min_confidence.  The score is
\*   num / (div * (sqrt(radT) + e*sizeT) * (sqrt(radS) + e*sizeS)),  e = 1e-10,
\* so for p > 0 it is below p/q exactly when q*num <= p*div*sqrt(radT*radS):
\* the epsilon floor keeps the score strictly under num/(div*sqrt(radT*radS))
\* whenever num > 0.  For p = 0 the sign of num decides.
ScoreLessOrEqual(score, thr) ==
    IF thr.p = 0 THEN score.num <= 0
    ELSE thr.q * score.num
            <= ISqrt(thr.p * thr.p * score.div * score.div * score.radT * score.radS)

ScoreLess(score, thr) ==
    IF thr.p = 0 THEN score.num < 0
    ELSE thr.q * score.num
            <= ISqrt(thr.p * thr.p * score.div * score.div * score.radT * score.radS)

\* int(x) of a float x held as t samples: truncation toward zero.
IntSeconds(t) == IF t >= 0 THEN t \div SampleRate ELSE -((-t) \div SampleRate)

\* seconds_to_timestamp(secs), secs held as t samples: the fields <<h, m, s>>
\* of the HH:MM:SS string, with Python's floor division and modulo.
SecondsToTimestamp(t) ==
    <<IntSeconds(t) \div 3600, (IntSeconds(t) % 3600) \div 60, IntSeconds(t) % 60>>


\* ------------------------------------------------------------------ state
VARIABLES
    pc,                      \* position of the run
    caller,                  \* "main" (command line) or "direct" (find_amen called as a function)
    cause,                   \* why the run left the detection path, "none" otherwise
    start_offset_minutes,
    search_duration_minutes,
    min_confidence,
    template_chroma,
    video_duration,          \* seconds
    search_start,            \* seconds
    search_duration,         \* seconds
    tmp_exists,              \* the temporary WAV file is on disk
    tmp_created,             \* a temporary WAV file was created in this run
    search_chroma,
    match_result,            \* what match_template_chroma returned or raised
    times,                   \* best_time_absolute, amen_end_absolute, template_duration (samples)
    result,                  \* the dict find_amen returns
    exc,                     \* the exception leaving find_amen or main, "none" otherwise
    stdout,                  \* what main printed
    exit_code,               \* process exit status, -1 while running
    ffprobe_calls,           \* ffprobe invocations
    ffmpeg_calls,            \* ffmpeg invocations, each with its -ss / -t arguments
    tool_stderr              \* stderr of the external tool that failed, "none" otherwise

vars == <<pc, caller, cause, start_offset_minutes, search_duration_minutes,
          min_confidence, template_chroma, video_duration, search_start,
          search_duration, tmp_exists, tmp_created, search_chroma, match_result,
          times, result, exc, stdout, exit_code, ffprobe_calls, ffmpeg_calls,
          tool_stderr>>

callVars == <<caller, start_offset_minutes, search_duration_minutes, min_confidence>>
fileVars == <<tmp_exists, tmp_created>>
toolVars == <<ffprobe_calls, ffmpeg_calls, tool_stderr>>
mainVars == <<stdout, exit_code>>
windowVars == <<video_duration, search_start, search_duration>>
matchVars == <<search_chroma, match_result, times>>

NoResult == [kind |-> "none"]
NoMatch == [kind |-> "none"]
NoTimes == [kind |-> "none"]

MinuteArgs == -1..MaxMinutes
MediaDurations == {0} \cup {45 * d : d \in 1..MaxMediaSteps} \cup {1300}
StderrTexts == {"No such file or directory", "Invalid data found when processing input"}

StoredTemplates == Matrices(Columns, 1, MaxTemplateFrames)
WindowChromas == Matrices(Columns, 1, MaxSearchFrames)

Min(a, b) == IF a < b THEN a ELSE b

Blank ==
    /\ caller = "none"
    /\ cause = "none"
    /\ start_offset_minutes = 0
    /\ search_duration_minutes = 0
    /\ min_confidence = DefaultMinConfidence
    /\ video_duration = 0
    /\ search_start = 0
    /\ search_duration = 0
    /\ tmp_exists = FALSE
    /\ tmp_created = FALSE
    /\ match_result = NoMatch
    /\ times = NoTimes
    /\ result = NoResult
    /\ exc = "none"
    /\ stdout = <<>>
    /\ exit_code = -1
    /\ ffprobe_calls = 0
    /\ ffmpeg_calls = <<>>
    /\ tool_stderr = "none"

Init ==
    /\ pc = "start"
    /\ template_chroma = <<>>
    /\ search_chroma = <<>>
    /\ Blank

Failure(error) == [detected |-> FALSE, error |-> error]

\* ------------------------------------------------------------------ main
\* main() up to the call of find_amen.  argc is len(sys.argv); arg1 is
\* sys.argv[1]; arg2 and arg3 are what int() makes of sys.argv[2] and
\* sys.argv[3], and ints_ok is FALSE when one of those given is no integer.
MainExit(why, printed, code, raised) ==
    /\ pc' = "exited"
    /\ caller' = "main"
    /\ cause' = why
    /\ stdout' = printed
    /\ exit_code' = code
    /\ exc' = raised
    /\ UNCHANGED <<start_offset_minutes, search_duration_minutes, min_confidence,
                   template_chroma, windowVars, fileVars, matchVars, result, toolVars>>

Main ==
    /\ pc = "start"
    /\ \E argc \in 1..5, arg1 \in {"--help", "video.mp4"},
          arg2 \in MinuteArgs, arg3 \in MinuteArgs, ints_ok \in BOOLEAN,
          deps_ok \in BOOLEAN, video_exists \in BOOLEAN :
        IF argc > 1 /\ arg1 = "--help"
        THEN MainExit("help", <<[text |-> "__doc__"]>>, 0, "none")
        ELSE IF argc < 2
        THEN MainExit("usage", <<Failure(<<"Usage: detect_amen.py <video_path> ...">>)>>, 1, "none")
        ELSE IF ~deps_ok
        THEN MainExit("deps", <<Failure(<<"Missing Python packages: ">>)>>, 1, "none")
        ELSE IF argc > 2 /\ ~ints_ok
        THEN MainExit("bad_minutes", <<>>, 1, "ValueError")
        ELSE IF ~video_exists
        THEN MainExit("video_missing", <<Failure(<<"Video file not found: ", arg1>>)>>, 1, "none")
        ELSE /\ pc' = "find_amen"
             /\ caller' = "main"
             /\ start_offset_minutes' = (IF argc > 2 THEN arg2 ELSE DefaultStartMinutes)
             /\ search_duration_minutes' = (IF argc > 3 THEN arg3 ELSE DefaultDurationMinutes)
             /\ min_confidence' = DefaultMinConfidence
             /\ UNCHANGED <<cause, template_chroma, windowVars, fileVars, matchVars,
                            result, exc, mainVars, toolVars>>

\* find_amen called as a function, with any arguments.
DirectCall ==
    /\ pc = "start"
    /\ \E s \in MinuteArgs, d \in MinuteArgs,
          thr \in {DefaultMinConfidence, ZeroConfidence} :
        /\ start_offset_minutes' = s
        /\ search_duration_minutes' = d
        /\ min_confidence' = thr
    /\ pc' = "find_amen"
    /\ caller' = "direct"
    /\ UNCHANGED <<cause, template_chroma, windowVars, fileVars, matchVars,
                   result, exc, mainVars, toolVars>>


\* ------------------------------------------------------------- find_amen
\* find_amen returns `res` before its try block is entered.
ReturnEarly(why, res) ==
    /\ pc' = "returned"
    /\ cause' = why
    /\ result' = res

\* Load the template: os.path.exists, then np.load (which raises on a file
\* that is no array).
LoadTemplate ==
    /\ pc = "find_amen"
    /\ \E stored \in {"missing", "corrupt", "ok"} :
        \/ /\ stored = "missing"
           /\ ReturnEarly("template_missing",
                          Failure(<<"Template not found: ", "amen_chroma.npy">>))
           /\ UNCHANGED <<template_chroma, exc>>
        \/ /\ stored = "corrupt"
           /\ pc' = "raised"
           /\ cause' = "template_corrupt"
           /\ exc' = "ValueError"
           /\ UNCHANGED <<template_chroma, result>>
        \/ /\ stored = "ok"
           /\ \E t \in StoredTemplates : template_chroma' = t
           /\ pc' = "duration"
           /\ UNCHANGED <<cause, result, exc>>
    /\ UNCHANGED <<callVars, windowVars, fileVars, matchVars, mainVars, toolVars>>

\* get_video_duration inside try/except Exception: ffprobe exits non-zero
\* (RuntimeError carrying its stderr), or prints something float() rejects
\* (ValueError), or prints the duration.
GetVideoDuration ==
    /\ pc = "duration"
    /\ ffprobe_calls' = ffprobe_calls + 1
    /\ \/ \E e \in StderrTexts :
            /\ tool_stderr' = e
            /\ ReturnEarly("ffprobe",
                           Failure(<<"Failed to get video duration: ", "ffprobe failed: ", e>>))
            /\ UNCHANGED video_duration
       \/ /\ ReturnEarly("duration_parse",
                         Failure(<<"Failed to get video duration: ",
                                   "could not convert string to float">>))
          /\ UNCHANGED <<video_duration, tool_stderr>>
       \/ /\ \E d \in MediaDurations : video_duration' = d
          /\ pc' = "window"
          /\ UNCHANGED <<cause, result, tool_stderr>>
    /\ UNCHANGED <<callVars, template_chroma, search_start, search_duration, fileVars,
                   matchVars, exc, mainVars, ffmpeg_calls>>

\* search_duration = min(search_duration_minutes * 60, video_duration - search_start)
ClampUnclamped(minutes, duration, start) == minutes * 60

Clamp(minutes, duration, start) == Min(minutes * 60, duration - start)

\* The search window, and the temporary file when the window is not empty.
ComputeWindow ==
    /\ pc = "window"
    /\ search_start' = start_offset_minutes * 60
    /\ search_duration' = Clamp(search_duration_minutes, video_duration, search_start')
    /\ IF search_duration' <= 0
       THEN /\ ReturnEarly("window", Failure(<<"Video too short: ", "need at least">>))
            /\ UNCHANGED fileVars
       ELSE /\ pc' = "extract"
            /\ tmp_exists' = TRUE
            /\ tmp_created' = TRUE
            /\ UNCHANGED <<cause, result>>
    /\ UNCHANGED <<callVars, template_chroma, video_duration, matchVars, exc,
                   mainVars, toolVars>>

\* extract_audio: ffmpeg -y -ss start -t duration ... tmp.  On failure the
\* file may or may not be left behind.
ExtractAudio ==
    /\ pc = "extract"
    /\ ffmpeg_calls' = Append(ffmpeg_calls, [ss |-> search_start, t |-> search_duration])
    /\ \/ \E e \in StderrTexts, left \in BOOLEAN :
            /\ tool_stderr' = e
            /\ tmp_exists' = left
            /\ result' = Failure(<<"Failed to extract audio from video">>)
            /\ cause' = "ffmpeg"
            /\ pc' = "finally"
       \/ /\ pc' = "chroma"
          /\ UNCHANGED <<tool_stderr, tmp_exists, result, cause>>
    /\ UNCHANGED <<callVars, template_chroma, windowVars, tmp_created, matchVars, exc,
                   mainVars, ffprobe_calls>>

\* compute_chroma: librosa loads the WAV file and returns its chroma matrix,
\* or raises.
ComputeChroma ==
    /\ pc = "chroma"
    /\ \/ /\ exc' = "LibrosaError"
          /\ cause' = "chroma"
          /\ pc' = "finally"
          /\ UNCHANGED search_chroma
       \/ /\ \E c \in WindowChromas : search_chroma' = c
          /\ pc' = "match"
          /\ UNCHANGED <<exc, cause>>
    /\ UNCHANGED <<callVars, template_chroma, windowVars, fileVars, match_result, times,
                   result, mainVars, toolVars>>

\* best_idx, best_score = match_template_chroma(template_chroma, search_chroma)
Match ==
    /\ pc = "match"
    /\ match_result' = MatchTemplateChroma(template_chroma, search_chroma)
    /\ IF match_result'.kind = "raise"
       THEN /\ exc' = match_result'.exc
            /\ cause' = "match"
            /\ pc' = "finally"
       ELSE /\ pc' = "localize"
            /\ UNCHANGED <<exc, cause>>
    /\ UNCHANGED <<callVars, template_chroma, windowVars, fileVars, search_chroma, times,
                   result, mainVars, toolVars>>

\* Frame index to time, all in samples: best_idx * hop / sr and
\* template_chroma.shape[1] * hop / sr, times SampleRate.
LocalizeTimesNextFrame(best_idx, start, template) ==
    [best_time_absolute |-> start * SampleRate + (best_idx + 1) * HopLength,
     template_duration |-> Shape1(template) * HopLength,
     amen_end_absolute |-> start * SampleRate + (best_idx + 1) * HopLength
                                + Shape1(template) * HopLength]

LocalizeTimes(best_idx, start, template) ==
    [best_time_absolute |-> start * SampleRate + best_idx * HopLength,
     template_duration |-> Shape1(template) * HopLength,
     amen_end_absolute |-> start * SampleRate + best_idx * HopLength
                                + Shape1(template) * HopLength]

\* The decision and the dict returned.
Localize ==
    /\ pc = "localize"
    /\ times' = LocalizeTimes(match_result.best_idx, search_start, template_chroma)
    /\ result' =
        IF ScoreLess(match_result.best_score, min_confidence)
        THEN [detected |-> FALSE,
              error |-> <<"Best match score ", "below threshold">>,
              best_score |-> match_result.best_score,
              best_time |-> SecondsToTimestamp(times'.amen_end_absolute)]
        ELSE [detected |-> TRUE,
              amen_start |-> SecondsToTimestamp(times'.best_time_absolute),
              amen_start_seconds |-> IntSeconds(times'.best_time_absolute),
              amen_end |-> SecondsToTimestamp(times'.amen_end_absolute),
              amen_end_seconds |-> IntSeconds(times'.amen_end_absolute),
              confidence |-> match_result.best_score]
    /\ pc' = "finally"
    /\ UNCHANGED <<callVars, cause, template_chroma, windowVars, fileVars, search_chroma,
                   match_result, exc, mainVars, toolVars>>

\* finally: remove the temporary file if it exists; then the return or the
\* exception goes on to the caller.
CleanupKeep(exists) == exists

Cleanup(exists) == FALSE

Finally ==
    /\ pc = "finally"
    /\ tmp_exists' = Cleanup(tmp_exists)
    /\ pc' = IF exc = "none" THEN "returned" ELSE "raised"
    /\ UNCHANGED <<callVars, cause, template_chroma, windowVars, tmp_created, matchVars,
                   result, exc, mainVars, toolVars>>

\* main() after find_amen: print(json.dumps(result)) and fall off the end, or
\* die of the uncaught exception.
MainPrint ==
    /\ caller = "main"
    /\ pc \in {"returned", "raised"}
    /\ IF pc = "returned"
       THEN /\ stdout' = Append(stdout, result)
            /\ exit_code' = 0
       ELSE /\ exit_code' = 1
            /\ UNCHANGED stdout
    /\ pc' = "exited"
    /\ UNCHANGED <<callVars, cause, template_chroma, windowVars, fileVars, matchVars,
                   result, exc, toolVars>>

Next ==
    \/ Main
    \/ DirectCall
    \/ LoadTemplate
    \/ GetVideoDuration
    \/ ComputeWindow
    \/ ExtractAudio
    \/ ComputeChroma
    \/ Match
    \/ Localize
    \/ Finally
    \/ MainPrint

Spec == Init /\ [][Next]_vars

\* --------------------------------------------------- the matcher on its own
\* Any template and any search matrix, then one call of match_template_chroma.
InitMatch ==
    /\ pc = "match"
    /\ template_chroma \in Matrices(Columns, 1, MaxM)
    /\ search_chroma \in Matrices(Columns, 1, MaxN)
    /\ Blank

SpecMatch == InitMatch /\ [][Match]_vars


\* ================================================================ claims
\* The aggregate correlation at 0-based offset k, written out as the double
\* sum over the 12 rows and the M template frames of the normalized entries
\* (numerators over the common positive denominator).
AggregateAt(tn, sn, k) ==
    SumSeq([i \in 1..Bins |-> SumSeq([j \in 1..Len(tn) |-> tn[j][i] * sn[k + j][i]])])

Aggregates ==
    LET tn == Normalize(template_chroma).num
        sn == Normalize(search_chroma).num
    IN  [k \in 0..(Len(search_chroma) - Len(template_chroma)) |-> AggregateAt(tn, sn, k)]

Matched == match_result.kind = "ok"
MatchCalled == match_result.kind # "none"

\* The template occupies frames p+1 .. p+M of the search matrix.
Embedded(p) ==
    /\ p + Len(template_chroma) <= Len(search_chroma)
    /\ \A j \in 1..Len(template_chroma) : search_chroma[p + j] = template_chroma[j]

\* C1: with M >= 1 and N >= M, match_template_chroma returns an offset in
\* [0, N-M] whose aggregate correlation is the maximum over all offsets, and
\* the lowest offset among those attaining the maximum.
C1_BestOffsetIsFirstMaximum ==
    (MatchCalled /\ Len(search_chroma) >= Len(template_chroma)) =>
        /\ Matched
        /\ match_result.best_idx \in 0..(Len(search_chroma) - Len(template_chroma))
        /\ LET agg == Aggregates
               best == match_result.best_idx
           IN  /\ \A k \in DOMAIN agg : agg[k] <= agg[best]
               /\ \A k \in DOMAIN agg : k < best => agg[k] < agg[best]

\* C1 witness: a match whose maximum is attained at two offsets, the lower of
\* them not the first offset, and that lower one returned.
C1_Witness ==
    /\ Matched
    /\ match_result.best_idx >= 1
    /\ \E k \in DOMAIN Aggregates :
        k > match_result.best_idx /\ Aggregates[k] = Aggregates[match_result.best_idx]

\* C2 as stated: whenever the template is embedded in the search matrix at
\* offset p, with any padding before and after, the best offset is p.  The
\* statement is taken in its most favourable case: the template is not
\* constant and p is the only offset at which it occurs.
C2_EmbeddedOffsetAlwaysReturned ==
    Matched =>
        \A p \in 0..(Len(search_chroma) - Len(template_chroma)) :
            (/\ Embedded(p)
             /\ Normalize(template_chroma).rad > 0
             /\ \A p2 \in 0..(Len(search_chroma) - Len(template_chroma)) :
                    p2 # p => ~Embedded(p2))
            => match_result.best_idx = p

\* C2 amended: when the template is embedded at offset p, the offset returned
\* has an aggregate correlation at least that of p, and it is p itself
\* whenever p's aggregate is greater than that of every lower offset and not
\* less than that of any higher offset.
C2_EmbeddedOffsetReturnedWhenItDominates ==
    Matched =>
        \A p \in 0..(Len(search_chroma) - Len(template_chroma)) :
            Embedded(p) =>
                LET agg == Aggregates
                IN  /\ agg[match_result.best_idx] >= agg[p]
                    /\ ( (/\ \A k \in DOMAIN agg : k < p => agg[k] < agg[p]
                          /\ \A k \in DOMAIN agg : k > p => agg[k] <= agg[p])
                         => match_result.best_idx = p )

\* C2 witness: a template embedded with padding on both sides, found at the
\* padding boundary.
C2_Witness ==
    /\ Matched
    /\ \E p \in 1..(Len(search_chroma) - Len(template_chroma) - 1) :
        /\ Embedded(p)
        /\ match_result.best_idx = p
        /\ \A k \in DOMAIN Aggregates : k # p => Aggregates[k] < Aggregates[p]

\* C5 as stated: when the template has more frames than the search matrix,
\* the matcher fails, returns no offset and score, and has computed no row
\* correlation.
C5_TooLongTemplateRejectedBeforeCorrelation ==
    (MatchCalled /\ Len(template_chroma) > Len(search_chroma)) =>
        /\ match_result.kind = "raise"
        /\ match_result.rows = 0


\* ---------------------------------------------------- detection requests
Finished == pc \in {"returned", "raised", "exited"}
Decided == times # NoTimes

\* score >= p/q, from the definition of the score: for p > 0 the epsilon
\* floor makes the score reach p/q only if q*num exceeds p*div*sqrt(radT*radS),
\* that is (q*num)^2 > (p*div)^2*radT*radS, which is below 2^31 <= 46341^2.
ScoreAtLeast(score, thr) ==
    IF thr.p = 0 THEN score.num >= 0
    ELSE /\ score.num > 0
         /\ \/ thr.q * score.num > 46340
            \/ (thr.q * score.num) * (thr.q * score.num)
                > thr.p * thr.p * score.div * score.div * score.radT * score.radS

\* The end time of the best candidate, in samples.
CandidateEnd ==
    search_start * SampleRate
        + (match_result.best_idx + Len(template_chroma)) * HopLength

\* C3: once find_amen has a match, the outcome is Detected with
\* confidence = score exactly when score >= threshold (equality included);
\* otherwise it is NotDetected and carries best_score = score and best_time =
\* the end time of the best candidate.
C3_DetectedIffScoreAtLeastThreshold ==
    Decided =>
        /\ result.detected <=> ScoreAtLeast(match_result.best_score, min_confidence)
        /\ result.detected => result.confidence = match_result.best_score
        /\ ~result.detected =>
            /\ result.best_score = match_result.best_score
            /\ result.best_time = SecondsToTimestamp(CandidateEnd)

\* C3 witness: a score exactly equal to the threshold, classified Detected.
C3_Witness ==
    /\ pc = "returned"
    /\ Decided
    /\ min_confidence.p = 0
    /\ match_result.best_score.num = 0
    /\ result.detected

\* C4 as stated: the start and end times find_amen reports differ by exactly
\* the template duration D = M*hop/sr, and the reported start is exactly
\* k*hop/sr after the window start A.  (Seconds times SampleRate are samples.)
C4_ReportedTimesExact ==
    (Decided /\ result.detected) =>
        /\ (result.amen_end_seconds - result.amen_start_seconds) * SampleRate
                = Len(template_chroma) * HopLength
        /\ (result.amen_start_seconds - search_start) * SampleRate
                = match_result.best_idx * HopLength

Abs(x) == IF x < 0 THEN -x ELSE x

\* C4 amended: the start and end times find_amen computes
\* (best_time_absolute, amen_end_absolute) satisfy end - start == D and
\* start - A == k*hop/sr exactly, for every k in [0, N-M]; the times it
\* reports (amen_start_seconds, amen_end_seconds, and the HH:MM:SS strings)
\* are those truncated to whole seconds, so each reported time is less than
\* one second from the computed one.
C4_ComputedTimesExactReportedTruncated ==
    Decided =>
        /\ match_result.best_idx \in 0..(Len(search_chroma) - Len(template_chroma))
        /\ times.amen_end_absolute - times.best_time_absolute
                = Len(template_chroma) * HopLength
        /\ times.best_time_absolute - search_start * SampleRate
                = match_result.best_idx * HopLength
        /\ result.detected =>
            /\ Abs(result.amen_start_seconds * SampleRate - times.best_time_absolute)
                    < SampleRate
            /\ Abs(result.amen_end_seconds * SampleRate - times.amen_end_absolute)
                    < SampleRate
            /\ result.amen_start = SecondsToTimestamp(times.best_time_absolute)
            /\ result.amen_end = SecondsToTimestamp(times.amen_end_absolute)
        /\ ~result.detected =>
            result.best_time = SecondsToTimestamp(times.amen_end_absolute)

\* C4 witness: a detection at a non-zero frame offset in a window that does
\* not start at the beginning of the recording.
C4_Witness ==
    /\ pc = "returned"
    /\ Decided
    /\ result.detected
    /\ match_result.best_idx >= 1
    /\ search_start > 0

FindAmenFailures ==
    {"template_missing", "template_corrupt", "ffprobe", "duration_parse",
     "window", "ffmpeg", "chroma", "match"}

\* C6 as stated: every failure inside a detection request ends in a returned
\* outcome with detected = false and an error string; no exception leaves
\* find_amen.
C6_EveryFailureIsAStructuredOutcome ==
    (Finished /\ cause \in FindAmenFailures) =>
        /\ exc = "none"
        /\ result # NoResult
        /\ result.detected = FALSE
        /\ "error" \in DOMAIN result

\* C7 as stated: a run of main exits non-zero exactly when there is a usage
\* error (no video argument, a minutes argument that is no integer), a
\* missing video file or a missing prerequisite (packages, template file);
\* every other run prints a Detection Outcome and exits 0.  Runs that only
\* ask for the help text are left aside.
C7_HardFailureExactlyOnUsageOrMissingPrerequisite ==
    (caller = "main" /\ pc = "exited" /\ cause # "help") =>
        IF cause \in {"usage", "bad_minutes", "video_missing", "deps", "template_missing"}
        THEN exit_code # 0
        ELSE /\ exit_code = 0
             /\ stdout # <<>>
             /\ stdout[Len(stdout)] = result
             /\ result # NoResult

\* C8 as stated: when ffprobe or ffmpeg exits non-zero, the outcome delivered
\* carries that tool's stderr output, and the tool is not run again.
C8_ToolFailureCarriesStderr ==
    (Finished /\ tool_stderr # "none") =>
        /\ result # NoResult
        /\ "error" \in DOMAIN result
        /\ \E i \in DOMAIN result.error : result.error[i] = tool_stderr
        /\ ffprobe_calls <= 1
        /\ Len(ffmpeg_calls) <= 1

\* The window has been computed (the request got past the duration query).
WindowComputed ==
    /\ pc \notin {"start", "find_amen", "duration", "window"}
    /\ cause \notin {"help", "usage", "deps", "bad_minutes", "video_missing", "template_missing",
                     "template_corrupt", "ffprobe", "duration_parse"}

\* C9: every window passed to audio extraction has duration > 0 and
\* offset + duration <= the recording's duration; when the requested window
\* is empty (the minutes asked for are <= 0, or the recording ends at or
\* before the offset) extraction is never invoked and a structured failure is
\* returned.
C9_ExtractionWindowWithinRecording ==
    /\ \A i \in DOMAIN ffmpeg_calls :
        /\ ffmpeg_calls[i].t > 0
        /\ ffmpeg_calls[i].ss + ffmpeg_calls[i].t <= video_duration
        /\ ffmpeg_calls[i].ss = start_offset_minutes * 60
    /\ (WindowComputed /\ (search_duration_minutes <= 0
                            \/ video_duration <= start_offset_minutes * 60)) =>
        /\ ffmpeg_calls = <<>>
        /\ pc \in {"returned", "exited"}
        /\ exc = "none"
        /\ result # NoResult
        /\ result.detected = FALSE
        /\ "error" \in DOMAIN result

\* C9 witness: an extraction whose duration was clamped to the end of the
\* recording.
C9_Witness ==
    /\ Len(ffmpeg_calls) = 1
    /\ ffmpeg_calls[1].t < search_duration_minutes * 60
    /\ ffmpeg_calls[1].ss + ffmpeg_calls[1].t = video_duration
    /\ ffmpeg_calls[1].ss > 0

\* C10: the temporary WAV file is gone when find_amen finishes, on every
\* path after its creation, and no temporary file is created on the paths
\* that fail before the search window is known to be non-empty.
C10_TemporaryFileRemoved ==
    /\ Finished => ~tmp_exists
    /\ cause \in {"template_missing", "template_corrupt", "ffprobe",
                  "duration_parse", "window"} => ~tmp_created
    /\ pc \in {"chroma", "match", "localize", "finally"} => tmp_created

\* C10 witness: find_amen ended by an exception raised by the matcher, after
\* the file was created, and the file is gone.
C10_Witness ==
    /\ pc = "raised"
    /\ cause = "match"
    /\ tmp_created
    /\ ~tmp_exists

====
